---- MODULE Spec2Model ----
\* A model of src/src/main.rs: the Shift trait, its leaf implementations
\* (CreateDir, CreateFile, Cmd), the composite GitHubClone and the plan
\* orchestrator ShiftPlan (apply with compensating rollback, revert).
EXTENDS Integers, Sequences, FiniteSets, TLC

\* ---------------------------------------------------------------- bounds
MaxPlanLen == 3
MaxCalls == 2

\* ------------------------------------------------------------ filesystem
\* Two relative paths under the working directory: "d" and its child "d/x".
Paths == {"d", "d/x"}
Contents == {"A", "B"}
Root == "."
NoDir == "None"

Parent(p) == IF p = "d/x" THEN "d" ELSE Root

Absent == [kind |-> "none", content |-> ""]
DirEntry == [kind |-> "dir", content |-> ""]
FileEntry(c) == [kind |-> "file", content |-> c]

\* q is p itself or lies below p
RECURSIVE IsUnder(_, _)
IsUnder(q, p) == IF q = p THEN TRUE
                 ELSE IF q = Root THEN FALSE
                 ELSE IsUnder(Parent(q), p)

\* Path::is_dir
RECURSIVE IsDir(_, _)
IsDir(f, p) == IF p = Root THEN TRUE
               ELSE f[p].kind = "dir" /\ IsDir(f, Parent(p))

\* Path::exists
Exists(f, p) == f[p].kind # "none" /\ IsDir(f, Parent(p))

\* Path::is_file
IsFile(f, p) == f[p].kind = "file" /\ IsDir(f, Parent(p))

\* an entry is present only inside a directory
WellFormed(f) == \A p \in Paths : f[p].kind # "none" => IsDir(f, Parent(p))

\* ---------------------------------------------------------------- errors
\* ShiftResult: Ok or one of the ShiftError variants; parts carries the
\* description/error pairs of an aggregate revert failure.
Ok == [kind |-> "Ok", msg |-> <<>>, parts |-> <<>>]
Err(kind, msg) == [kind |-> kind, msg |-> msg, parts |-> <<>>]

\* the io::Error of a filesystem call whose parent directory is unusable
IoParentError(f, p) == IF Exists(f, Parent(p)) THEN Err("IoError", <<"NotADirectory">>)
                       ELSE Err("IoError", <<"NotFound">>)

\* fs::create_dir: one level only
FsCreateDir(f, p) ==
    IF IsDir(f, Parent(p))
    THEN [fs |-> [f EXCEPT ![p] = DirEntry], res |-> Ok]
    ELSE [fs |-> f, res |-> IoParentError(f, p)]

\* fs::write
FsWrite(f, p, c) ==
    IF IsDir(f, Parent(p))
    THEN [fs |-> [f EXCEPT ![p] = FileEntry(c)], res |-> Ok]
    ELSE [fs |-> f, res |-> IoParentError(f, p)]

\* fault: fs::remove_dir, which refuses a directory that is not empty
FsRemoveDirAll_EmptyOnly(f, p) ==
    IF \E q \in Paths : q # p /\ IsUnder(q, p) /\ f[q].kind # "none"
    THEN [fs |-> f, res |-> Err("IoError", <<"DirectoryNotEmpty">>)]
    ELSE [fs |-> [f EXCEPT ![p] = Absent], res |-> Ok]

\* fs::remove_dir_all: the directory and everything below it
FsRemoveDirAll(f, p) ==
    [fs |-> [q \in Paths |-> IF IsUnder(q, p) THEN Absent ELSE f[q]], res |-> Ok]

\* fs::remove_file
FsRemoveFile(f, p) == [fs |-> [f EXCEPT ![p] = Absent], res |-> Ok]

\* ---------------------------------------------------------------- shifts
CreateDirNew(path) == [type |-> "CreateDir", path |-> path]

CreateFileNew(path, content) == [type |-> "CreateFile", path |-> path, content |-> content]

NoCodes == [some |-> FALSE, v |-> {}]
SomeCodes(v) == [some |-> TRUE, v |-> v]

CmdNew(command, args, working_dir, success_exit_codes) ==
    [type |-> "Cmd", command |-> command, args |-> args, working_dir |-> working_dir,
     success_exit_codes |-> IF success_exit_codes.some THEN success_exit_codes.v ELSE {0}]

GitHubCloneNew(repo_url, target_dir, branch, depth) ==
    [type |-> "GitHubClone", repo_url |-> repo_url, target_dir |-> target_dir,
     branch |-> branch, depth |-> depth]

IsLeaf(s) == s.type # "GitHubClone"

\* GitHubClone::build_plan: the shifts of the internal plan
BuildPlan(s) ==
    LET args == <<"clone", s.repo_url>>
                \o (IF s.branch # "None" THEN <<"--branch", s.branch>> ELSE <<>>)
                \o (IF s.depth # "None" THEN <<"--depth", s.depth>> ELSE <<>>)
                \o <<s.target_dir>>
        git_plan == CmdNew("git", args, s.target_dir, NoCodes)
    IN  <<CreateDirNew(s.target_dir), git_plan>>

\* Shift::describe
Describe(s) ==
    CASE s.type = "CreateDir" -> <<"Create directory at", s.path>>
      [] s.type = "CreateFile" -> <<"Create file at", s.path, "with specific content">>
      [] s.type = "Cmd" -> <<"Execute command", s.command, "with args">> \o s.args
                           \o (IF s.working_dir = NoDir THEN <<>>
                               ELSE <<"in directory", s.working_dir>>)
      [] s.type = "GitHubClone" -> <<"Clone GitHub repository", s.repo_url,
                                     "into directory", s.target_dir>>

\* fault: a path occupied by a non-directory is accepted
CreateDirApply_Lenient(s, f) ==
    IF Exists(f, s.path) THEN [fs |-> f, res |-> Ok] ELSE FsCreateDir(f, s.path)

\* fault: an existing directory is refused, as CreateFile refuses a file
CreateDirApply_Strict(s, f) ==
    IF Exists(f, s.path)
    THEN [fs |-> f, res |-> Err("AlreadyExists",
                                <<"Path", s.path, "exists but is not a directory">>)]
    ELSE FsCreateDir(f, s.path)

\* CreateDir::apply
CreateDirApply(s, f) ==
    IF Exists(f, s.path)
    THEN IF IsDir(f, s.path)
         THEN [fs |-> f, res |-> Ok]
         ELSE [fs |-> f, res |-> Err("AlreadyExists",
                                     <<"Path", s.path, "exists but is not a directory">>)]
    ELSE FsCreateDir(f, s.path)

\* fault: the directory is left in place
CreateDirRevert_Keep(s, f) ==
    IF ~Exists(f, s.path) THEN [fs |-> f, res |-> Ok]
    ELSE IF ~IsDir(f, s.path)
         THEN [fs |-> f, res |-> Err("ValidationFailed",
                                     <<"Path", s.path, "is not a directory">>)]
         ELSE [fs |-> f, res |-> Ok]

\* fault: a missing path is an error
CreateDirRevert_Strict(s, f) ==
    IF ~Exists(f, s.path) THEN [fs |-> f, res |-> Err("NotFound", <<"Path", s.path>>)]
    ELSE IF ~IsDir(f, s.path)
         THEN [fs |-> f, res |-> Err("ValidationFailed",
                                     <<"Path", s.path, "is not a directory">>)]
         ELSE [fs |-> [q \in Paths |-> IF IsUnder(q, s.path) THEN Absent ELSE f[q]],
               res |-> Ok]

\* CreateDir::revert
CreateDirRevert(s, f) ==
    IF ~Exists(f, s.path) THEN [fs |-> f, res |-> Ok]
    ELSE IF ~IsDir(f, s.path)
         THEN [fs |-> f, res |-> Err("ValidationFailed",
                                     <<"Path", s.path, "is not a directory">>)]
         ELSE FsRemoveDirAll(f, s.path)

\* fault: an existing entry is overwritten
CreateFileApply_Overwrite(s, f) == FsWrite(f, s.path, s.content)

\* CreateFile::apply
CreateFileApply(s, f) ==
    IF Exists(f, s.path)
    THEN [fs |-> f, res |-> Err("AlreadyExists", <<"File", s.path, "already exists">>)]
    ELSE FsWrite(f, s.path, s.content)

\* fault: the file is left in place
CreateFileRevert_Keep(s, f) ==
    IF ~Exists(f, s.path) THEN [fs |-> f, res |-> Ok]
    ELSE IF ~IsFile(f, s.path)
         THEN [fs |-> f, res |-> Err("ValidationFailed", <<"Path", s.path, "is not a file">>)]
         ELSE [fs |-> f, res |-> Ok]

\* CreateFile::revert
CreateFileRevert(s, f) ==
    IF ~Exists(f, s.path) THEN [fs |-> f, res |-> Ok]
    ELSE IF ~IsFile(f, s.path)
         THEN [fs |-> f, res |-> Err("ValidationFailed", <<"Path", s.path, "is not a file">>)]
         ELSE FsRemoveFile(f, s.path)

\* What the operating system can report for one spawned process:
\* launch failure, an exit code, or termination without a code (signal).
\* written: the process created a file in its working directory.
ExitCodes == {0, 1, -1}
ProcOutcomes ==
    {[launched |-> FALSE, hasCode |-> FALSE, code |-> 0, written |-> FALSE]}
    \cup {[launched |-> TRUE, hasCode |-> TRUE, code |-> c, written |-> w] :
            c \in ExitCodes, w \in BOOLEAN}
    \cup {[launched |-> TRUE, hasCode |-> FALSE, code |-> 0, written |-> w] : w \in BOOLEAN}
NoProc == [launched |-> FALSE, hasCode |-> FALSE, code |-> 0, written |-> FALSE]

CodeStr(o) == IF ~o.hasCode THEN "None"
              ELSE IF o.code = 0 THEN "Some(0)"
              ELSE IF o.code = 1 THEN "Some(1)" ELSE "Some(-1)"

\* the file a child process leaves behind in its working directory
ProcFile == "d/x"
ProcContent == "P"
CmdEffect(s, f, o) ==
    IF o.written /\ s.working_dir = Parent(ProcFile) /\ ~Exists(f, ProcFile)
    THEN [f EXCEPT ![ProcFile] = FileEntry(ProcContent)]
    ELSE f

\* Cmd::apply
CmdApply(s, f, o) ==
    IF (s.working_dir # NoDir /\ ~IsDir(f, s.working_dir)) \/ ~o.launched
    THEN [fs |-> f, res |-> Err("IoError", <<"spawn">>)]
    ELSE IF ~((IF o.hasCode THEN o.code ELSE -1) \in s.success_exit_codes)
         THEN [fs |-> CmdEffect(s, f, o),
               res |-> Err("CommandFailed",
                           <<"Command", s.command, "failed with exit code", CodeStr(o)>>)]
         ELSE [fs |-> CmdEffect(s, f, o), res |-> Ok]

\* fault: reverting a command is reported as done
CmdRevert_Ok(s, f) == [fs |-> f, res |-> Ok]

\* Cmd::revert
CmdRevert(s, f) ==
    [fs |-> f, res |-> Err("Custom", <<"Cannot automatically revert a command execution">>)]

\* Shift::is_applied (Ok(true), Ok(false) or an error)
IsApplied(s, f) ==
    CASE s.type = "CreateDir" -> IF Exists(f, s.path) /\ IsDir(f, s.path) THEN "true" ELSE "false"
      [] s.type = "CreateFile" -> IF Exists(f, s.path) /\ IsFile(f, s.path) THEN "true" ELSE "false"
      [] s.type = "Cmd" -> "Custom"
      [] s.type = "GitHubClone" ->
            IF Exists(f, s.target_dir) /\ IsDir(f, s.target_dir) THEN "true" ELSE "false"

\* dynamic dispatch of Shift::apply / Shift::revert on a leaf shift
LeafCall(s, call, f, o) ==
    CASE s.type = "CreateDir" -> IF call = "apply" THEN CreateDirApply(s, f)
                                 ELSE CreateDirRevert(s, f)
      [] s.type = "CreateFile" -> IF call = "apply" THEN CreateFileApply(s, f)
                                  ELSE CreateFileRevert(s, f)
      [] s.type = "Cmd" -> IF call = "apply" THEN CmdApply(s, f, o) ELSE CmdRevert(s, f)

\* what Command::output handed back to Cmd::apply: whether a process ran and
\* the exit code it ended with, if any (nothing for every other call)
NoStatus == [launched |-> FALSE, hasCode |-> FALSE, code |-> 0]
ProcStatus(s, call, f, o) ==
    IF s.type = "Cmd" /\ call = "apply" /\ o.launched
       /\ (s.working_dir = NoDir \/ IsDir(f, s.working_dir))
    THEN [launched |-> TRUE, hasCode |-> o.hasCode, code |-> IF o.hasCode THEN o.code ELSE 0]
    ELSE NoStatus

\* the process outcomes a call can meet (only Cmd::apply spawns a process)
Outcomes(s, call) == IF s.type = "Cmd" /\ call = "apply" THEN ProcOutcomes ELSE {NoProc}

\* ------------------------------------------------------------- the plans
ShiftUniverse ==
    { CreateDirNew("d"),
      CreateDirNew("d/x"),
      CreateFileNew("d/x", "A"),
      CreateFileNew("d/x", "B"),
      CmdNew("npm", <<"init", "-y">>, "d", NoCodes),
      CmdNew("sh", <<>>, NoDir, SomeCodes({0, -1})),
      GitHubCloneNew("s3-proxy.git", "d", "main", "None") }

RECURSIVE SeqsUpTo(_, _)
SeqsUpTo(S, n) == IF n = 0 THEN {<<>>}
                  ELSE LET R == SeqsUpTo(S, n - 1)
                       IN  R \cup {Append(r, x) : r \in {q \in R : Len(q) = n - 1}, x \in S}

Plans == SeqsUpTo(ShiftUniverse, MaxPlanLen)

\* the filesystem shifts alone, on both paths, and a command without a
\* working directory: the plans of the runs that call the plan repeatedly
FileShiftUniverse ==
    { CreateDirNew("d"),
      CreateDirNew("d/x"),
      CreateFileNew("d", "A"),
      CreateFileNew("d/x", "A"),
      CreateFileNew("d/x", "B"),
      CmdNew("sh", <<>>, NoDir, SomeCodes({0, -1})) }

FilePlans == SeqsUpTo(FileShiftUniverse, MaxPlanLen)

InitFS == {f \in [Paths -> {Absent, DirEntry} \cup {FileEntry(c) : c \in Contents}] :
             WellFormed(f)}

RECURSIVE Reverse(_)
Reverse(s) == IF s = <<>> THEN <<>> ELSE Append(Reverse(Tail(s)), Head(s))

Indices(shifts) == [k \in 1..Len(shifts) |-> k]

\* -------------------------------------------------------- the orchestrator
VARIABLES plan, fs, stack, log, hist
vars == <<plan, fs, stack, log, hist>>

Pending == [kind |-> "Pending", msg |-> <<>>, parts |-> <<>>]

\* ShiftPlan::apply, on entry: an empty applied-set, the loop at the first shift
ApplyFrame(shifts, f) ==
    [op |-> "apply", shifts |-> shifts, pc |-> "loop", i |-> 1, applied |-> <<>>,
     rb |-> <<>>, e |-> Ok, errors |-> <<>>, res |-> Pending, pre |-> f]

\* the order in which ShiftPlan::revert visits the shifts
RevertOrder(shifts) == Reverse(Indices(shifts))

\* ShiftPlan::revert, on entry: no errors, the loop at the last shift
RevertFrame(shifts, f) ==
    [op |-> "revert", shifts |-> shifts, pc |-> "revloop", i |-> 0, applied |-> <<>>,
     rb |-> RevertOrder(shifts), e |-> Ok, errors |-> <<>>, res |-> Pending, pre |-> f]

\* fault: rollback walks the applied-set front to back
RollbackOrder_Forward(applied) == applied

\* the order in which the rollback of ShiftPlan::apply visits the applied-set
RollbackOrder(applied) == Reverse(applied)

\* fault: a failed apply does not stop the loop
ApplyDeliver_Continue(f, r) ==
    IF r = Ok
    THEN [f EXCEPT !.applied = Append(@, f.i), !.i = f.i + 1]
    ELSE [f EXCEPT !.i = f.i + 1]

\* fault: the shift whose apply failed is rolled back too
ApplyDeliver_PushFailed(f, r) ==
    IF r = Ok
    THEN [f EXCEPT !.applied = Append(@, f.i), !.i = f.i + 1]
    ELSE [f EXCEPT !.pc = "rollback", !.e = r,
                   !.rb = RollbackOrder(Append(f.applied, f.i))]

\* ShiftPlan::apply, the match on shift.apply()
ApplyDeliver(f, r) ==
    IF r = Ok
    THEN [f EXCEPT !.applied = Append(@, f.i), !.i = f.i + 1]
    ELSE [f EXCEPT !.pc = "rollback", !.e = r, !.rb = RollbackOrder(f.applied)]

\* fault: a failed revert ends the rollback
RollbackDeliver_Abort(f, r) ==
    IF r = Ok THEN [f EXCEPT !.rb = Tail(@)] ELSE [f EXCEPT !.rb = <<>>]

\* fault: a failed revert replaces the error that apply will return
RollbackDeliver_Substitute(f, r) ==
    [f EXCEPT !.rb = Tail(@), !.e = IF r = Ok THEN @ ELSE r]

\* ShiftPlan::apply, the match on applied_shift.revert() during rollback
RollbackDeliver(f, r) == [f EXCEPT !.rb = Tail(@)]

\* fault: the first failed revert ends the loop
RevertDeliver_Halt(f, r) ==
    IF r = Ok THEN [f EXCEPT !.rb = Tail(@)]
    ELSE [f EXCEPT !.rb = <<>>,
                   !.errors = Append(@, [desc |-> Describe(f.shifts[Head(f.rb)]), err |-> r])]

\* ShiftPlan::revert, the match on shift.revert()
RevertDeliver(f, r) ==
    [f EXCEPT !.rb = Tail(@),
              !.errors = IF r = Ok THEN @
                         ELSE Append(@, [desc |-> Describe(f.shifts[Head(f.rb)]), err |-> r])]

\* fault: only the first failure is reported
RevertResult_First(errors) ==
    IF errors # <<>>
    THEN [kind |-> "Custom", msg |-> <<"Failed to revert some shifts">>,
          parts |-> <<Head(errors)>>]
    ELSE Ok

\* ShiftPlan::revert, the result after the loop
RevertResult(errors) ==
    IF errors # <<>>
    THEN [kind |-> "Custom", msg |-> <<"Failed to revert some shifts">>, parts |-> errors]
    ELSE Ok

\* ShiftPlan::apply, the result once rollback is over
ApplyFailure(f) == f.e

\* the loops' exits: the frame returns when nothing is left to visit
Finish(f) ==
    CASE f.pc = "loop" /\ f.i > Len(f.shifts) -> [f EXCEPT !.pc = "return", !.res = Ok]
      [] f.pc = "rollback" /\ f.rb = <<>> -> [f EXCEPT !.pc = "return", !.res = ApplyFailure(f)]
      [] f.pc = "revloop" /\ f.rb = <<>> ->
            [f EXCEPT !.pc = "return", !.res = RevertResult(f.errors)]
      [] OTHER -> f

\* the call the frame is about to make, and on which of its shifts
CurCall(f) == IF f.pc = "loop" THEN "apply" ELSE "revert"
CurIdx(f) == IF f.pc = "loop" THEN f.i ELSE Head(f.rb)
CurShift(f) == f.shifts[CurIdx(f)]

Deliver(f, r) ==
    Finish(CASE f.pc = "loop" -> ApplyDeliver(f, r)
             [] f.pc = "rollback" -> RollbackDeliver(f, r)
             [] f.pc = "revloop" -> RevertDeliver(f, r))

\* the record of one returned Shift::apply / Shift::revert call: who called it
\* (lvl: depth of the calling plan, idx: position in that plan), its result
\* the filesystem before and after it, and the status of the process it ran
Event(f, lvl, r, before, after, status) ==
    [call |-> CurCall(f), idx |-> CurIdx(f), shift |-> CurShift(f), lvl |-> lvl, res |-> r,
     pre |-> before, post |-> after, proc |-> status]

Top == stack[Len(stack)]
Running == stack # <<>> /\ Top.pc # "return"
SetTop(f) == [stack EXCEPT ![Len(stack)] = f]

Init ==
    /\ plan \in Plans
    /\ fs \in InitFS
    /\ stack = <<>>
    /\ log = <<>>
    /\ hist = <<>>

\* entry into ShiftPlan::apply or ShiftPlan::revert on the plan
StartCall(op) ==
    /\ stack' = <<IF op = "apply" THEN Finish(ApplyFrame(plan, fs))
                  ELSE Finish(RevertFrame(plan, fs))>>
    /\ log' = <<>>
    /\ hist' = Append(hist, [op |-> op, pre |-> fs, post |-> fs, res |-> Pending])
    /\ UNCHANGED <<plan, fs>>

\* the caller invokes ShiftPlan::apply on the plan
CallApply ==
    /\ stack = <<>>
    /\ hist = <<>>
    /\ StartCall("apply")

\* the caller invokes ShiftPlan::revert on the plan
CallRevert ==
    /\ stack = <<>>
    /\ hist = <<>>
    /\ StartCall("revert")

\* the caller invokes ShiftPlan::apply again, after an earlier call returned
CallApplyAgain ==
    /\ stack = <<>>
    /\ hist # <<>>
    /\ Len(hist) < MaxCalls
    /\ StartCall("apply")

\* the caller invokes ShiftPlan::revert again, after an earlier call returned
CallRevertAgain ==
    /\ stack = <<>>
    /\ hist # <<>>
    /\ Len(hist) < MaxCalls
    /\ StartCall("revert")

\* one call of a leaf shift's apply or revert from the frame in state pc
LeafStep(pc) ==
    /\ Running
    /\ Top.pc = pc
    /\ IsLeaf(CurShift(Top))
    /\ \E o \in Outcomes(CurShift(Top), CurCall(Top)) :
         LET r == LeafCall(CurShift(Top), CurCall(Top), fs, o)
         IN  /\ fs' = r.fs
             /\ log' = Append(log, Event(Top, Len(stack), r.res, fs, r.fs,
                                         ProcStatus(CurShift(Top), CurCall(Top), fs, o)))
             /\ stack' = SetTop(Deliver(Top, r.res))
    /\ UNCHANGED <<plan, hist>>

\* ShiftPlan::apply: shift.apply() on the next shift
ApplyShift == LeafStep("loop")

\* ShiftPlan::apply: applied_shift.revert() during rollback
RollbackShift == LeafStep("rollback")

\* ShiftPlan::revert: shift.revert() on the next shift
RevertShift == LeafStep("revloop")

\* GitHubClone::apply / GitHubClone::revert: build the plan and run it
EnterComposite ==
    /\ Running
    /\ ~IsLeaf(CurShift(Top))
    /\ stack' = Append(stack,
                       IF CurCall(Top) = "apply" THEN Finish(ApplyFrame(BuildPlan(CurShift(Top)), fs))
                       ELSE Finish(RevertFrame(BuildPlan(CurShift(Top)), fs)))
    /\ UNCHANGED <<plan, fs, log, hist>>

\* the internal plan returns to the frame that called the composite shift
ReturnComposite ==
    /\ Len(stack) > 1
    /\ Top.pc = "return"
    /\ LET caller == stack[Len(stack) - 1]
       IN  /\ log' = Append(log, Event(caller, Len(stack) - 1, Top.res, Top.pre, fs, NoStatus))
           /\ stack' = [SubSeq(stack, 1, Len(stack) - 1)
                          EXCEPT ![Len(stack) - 1] = Deliver(caller, Top.res)]
    /\ UNCHANGED <<plan, fs, hist>>

\* ShiftPlan::apply / ShiftPlan::revert returns to the caller
Return ==
    /\ Len(stack) = 1
    /\ Top.pc = "return"
    /\ stack' = <<>>
    /\ hist' = [hist EXCEPT ![Len(hist)] = [@ EXCEPT !.post = fs, !.res = Top.res]]
    /\ UNCHANGED <<plan, fs, log>>

Next ==
    \/ CallApply
    \/ CallRevert
    \/ ApplyShift
    \/ RollbackShift
    \/ RevertShift
    \/ EnterComposite
    \/ ReturnComposite
    \/ Return

\* one call of ShiftPlan::apply or ShiftPlan::revert, on any plan, from any
\* filesystem
Spec == Init /\ [][Next]_vars

InitSeq ==
    /\ plan \in FilePlans
    /\ fs \in InitFS
    /\ stack = <<>>
    /\ log = <<>>
    /\ hist = <<>>

NextSeq ==
    \/ CallApply
    \/ CallRevert
    \/ CallApplyAgain
    \/ CallRevertAgain
    \/ ApplyShift
    \/ RollbackShift
    \/ RevertShift
    \/ Return

\* a call that has begun keeps running: the code is sequential, and every
\* shift call is assumed to return
Progress ==
    \/ ApplyShift
    \/ RollbackShift
    \/ RevertShift
    \/ EnterComposite
    \/ ReturnComposite
    \/ Return

\* one shift of each kind: the plans of the runs checked for termination
LiveShiftUniverse ==
    { CreateDirNew("d"),
      CreateFileNew("d/x", "A"),
      CmdNew("sh", <<>>, NoDir, SomeCodes({0, -1})),
      GitHubCloneNew("s3-proxy.git", "d", "main", "None") }

InitLive ==
    /\ plan \in SeqsUpTo(LiveShiftUniverse, MaxPlanLen)
    /\ fs \in InitFS
    /\ stack = <<>>
    /\ log = <<>>
    /\ hist = <<>>

SpecLive == InitLive /\ [][Next]_vars /\ WF_vars(Progress)

\* up to MaxCalls calls in a row on a plan of leaf shifts
SpecSeq == InitSeq /\ [][NextSeq]_vars

\* the filesystem stays well formed
FsWellFormed == WellFormed(fs)

\* ------------------------------------------------------------ properties
Last(s) == s[Len(s)]

\* the calls made by the plan at depth n, in the order they returned
Lvl(n) == LET AtLvl(ev) == ev.lvl = n IN SelectSeq(log, AtLvl)

\* the operation the caller invoked last, and whether it has returned
CallOp == IF hist = <<>> THEN "none" ELSE Last(hist).op
Done == stack = <<>> /\ hist # <<>>

Failed(evs) == LET Bad(ev) == ev.res # Ok IN SelectSeq(evs, Bad)

\* C1: in ShiftPlan::apply, if the applies of shifts 1..k-1 succeeded and the
\* apply of shift k failed, the calls that follow are revert on shifts
\* k-1, k-2, ..., 1, each exactly once and in that order, whatever the reverts
\* return; no revert is called on shift k or on a later shift.
C1_RollbackInReverse ==
    CallOp = "apply" =>
      LET ev == Lvl(1)
      IN  \A k \in 1..Len(ev) :
            ( /\ \A m \in 1..(k - 1) :
                    ev[m].call = "apply" /\ ev[m].idx = m /\ ev[m].res = Ok
              /\ ev[k].call = "apply" /\ ev[k].idx = k /\ ev[k].res # Ok )
            => /\ Len(ev) <= 2 * k - 1
               /\ \A m \in (k + 1)..Len(ev) :
                     /\ ev[m].call = "revert"
                     /\ ev[m].idx = 2 * k - m
                     /\ ev[m].shift = plan[2 * k - m]
               /\ (stack = <<>> => Len(ev) = 2 * k - 1)

\* apply failed on the third shift, the rollback is over and one of its reverts failed
C1_Witness ==
    /\ Done /\ CallOp = "apply"
    /\ Len(Lvl(1)) = 5
    /\ Lvl(1)[3].call = "apply" /\ Lvl(1)[3].res # Ok
    /\ Lvl(1)[4].call = "revert" /\ Lvl(1)[4].res # Ok
    /\ Lvl(1)[5].call = "revert" /\ Lvl(1)[5].res = Ok

\* C2: when ShiftPlan::apply fails, the error it returns is the error of the
\* first (and only) failing Shift::apply, never an error of a revert made
\* during rollback; it returns Ok exactly when no apply failed.
C2_ReturnsTriggeringError ==
    (Done /\ CallOp = "apply") =>
      LET ev == Lvl(1)
          failing == {k \in 1..Len(ev) : ev[k].call = "apply" /\ ev[k].res # Ok}
      IN  /\ Cardinality(failing) <= 1
          /\ (failing = {} <=> Last(hist).res = Ok)
          /\ \A k \in failing : Last(hist).res = ev[k].res

\* apply has failed and a revert of the rollback failed too
C2_Witness ==
    /\ Done /\ CallOp = "apply"
    /\ Last(hist).res # Ok
    /\ \E m \in 1..Len(Lvl(1)) : Lvl(1)[m].call = "revert" /\ Lvl(1)[m].res # Ok

\* C3: ShiftPlan::revert calls revert on every shift of the plan exactly once,
\* last shift first, whatever the individual reverts return, and calls no apply.
C3_RevertVisitsAll ==
    CallOp = "revert" =>
      LET ev == Lvl(1)
          n == Len(plan)
      IN  /\ Len(ev) <= n
          /\ \A m \in 1..Len(ev) :
                /\ ev[m].call = "revert"
                /\ ev[m].idx = n - m + 1
                /\ ev[m].shift = plan[n - m + 1]
          /\ (stack = <<>> => Len(ev) = n)
          /\ \A m \in 1..Len(log) : log[m].call = "revert"

\* a revert of three shifts whose first attempt failed and whose last succeeded
C3_Witness ==
    /\ Done /\ CallOp = "revert"
    /\ Len(Lvl(1)) = 3
    /\ Lvl(1)[1].res # Ok
    /\ Lvl(1)[3].res = Ok

\* C4: ShiftPlan::revert returns Ok iff every revert succeeded; otherwise one
\* Custom failure whose list holds the description/error pair of exactly the
\* shifts whose revert failed, in the order the reverts were attempted.
C4_RevertAggregates ==
    (Done /\ CallOp = "revert") =>
      LET bad == Failed(Lvl(1))
          pairs == [m \in 1..Len(bad) |-> [desc |-> Describe(bad[m].shift), err |-> bad[m].res]]
          res == Last(hist).res
      IN  /\ (res = Ok <=> bad = <<>>)
          /\ bad # <<>> => /\ res.kind = "Custom"
                           /\ res.msg = <<"Failed to revert some shifts">>
                           /\ res.parts = pairs

\* a revert with two failures and one success
C4_Witness ==
    /\ Done /\ CallOp = "revert"
    /\ Len(Failed(Lvl(1))) = 2
    /\ Len(Lvl(1)) = 3

\* the paths a plan's CreateDir and CreateFile shifts address
Targets(shifts) ==
    {shifts[k].path : k \in {j \in 1..Len(shifts) : shifts[j].type \in {"CreateDir", "CreateFile"}}}

FileOnly(shifts) == \A k \in 1..Len(shifts) : shifts[k].type \in {"CreateDir", "CreateFile"}

\* what a shift's successful apply establishes
PostCondition(s, f) ==
    CASE s.type = "CreateDir" -> IsDir(f, s.path)
      [] s.type = "CreateFile" -> IsFile(f, s.path) /\ f[s.path].content = s.content
      [] OTHER -> TRUE

\* C5: when no shift's apply fails, the state after apply satisfies every
\* shift's post-condition, and a revert of the plan that follows returns
\* every managed path to its state before the apply, from every initial
\* filesystem (also one where a managed directory existed already).
C5_ApplyThenRevertRestores ==
    (hist # <<>> /\ hist[1].op = "apply" /\ hist[1].res = Ok) =>
      /\ \A k \in 1..Len(plan) : PostCondition(plan[k], hist[1].post)
      /\ (Len(hist) >= 2 /\ hist[2].op = "revert" /\ hist[2].res # Pending) =>
            \A p \in Targets(plan) : hist[2].post[p] = hist[1].pre[p]

EmptyFS == [p \in Paths |-> Absent]

ExamplePlan == <<CreateDirNew("d"), CreateFileNew("d/x", "A"), CreateFileNew("d/x", "B")>>

\* C6: a plan of CreateDir and CreateFile shifts only, started where none of
\* its target paths exists: if apply fails, no target path exists once the
\* rollback is over; [dir d, file d/x, file d/x] fails on the third shift
\* with AlreadyExists, the rollback removes d/x and then d.
C6_FailedApplyLeavesNoTarget ==
    /\ ( /\ hist # <<>> /\ hist[1].op = "apply"
         /\ hist[1].res # Ok /\ hist[1].res # Pending
         /\ FileOnly(plan)
         /\ \A p \in Targets(plan) : ~Exists(hist[1].pre, p) )
       => \A p \in Targets(plan) : ~Exists(hist[1].post, p)
    /\ ( /\ Done /\ Len(hist) = 1 /\ hist[1].op = "apply"
         /\ plan = ExamplePlan /\ hist[1].pre = EmptyFS )
       => /\ hist[1].res = Err("AlreadyExists", <<"File", "d/x", "already exists">>)
          /\ Len(log) = 5
          /\ log[3].call = "apply" /\ log[3].idx = 3 /\ log[3].res = hist[1].res
          /\ log[4].call = "revert" /\ log[4].idx = 2
          /\ log[4].post = [EmptyFS EXCEPT !["d"] = DirEntry]
          /\ log[5].call = "revert" /\ log[5].idx = 1
          /\ log[5].post = EmptyFS
          /\ hist[1].post = EmptyFS

\* the example plan has failed from the empty filesystem and was rolled back
C6_Witness ==
    /\ Done /\ Len(hist) = 1 /\ hist[1].op = "apply"
    /\ plan = ExamplePlan /\ hist[1].pre = EmptyFS
    /\ hist[1].res # Ok

\* the calls the internal plan of the composite call log[m] made
PrevAt(m) ==
    LET before == {j \in 1..(m - 1) : log[j].lvl <= log[m].lvl}
    IN  IF before = {} THEN 0 ELSE CHOOSE j \in before : \A q \in before : q <= j
Nested(m) == SubSeq(log, PrevAt(m) + 1, m - 1)

CloneApplyAt(m) == log[m].shift.type = "GitHubClone" /\ log[m].call = "apply"

\* C7: GitHubClone::apply on a target that exists as a non-directory fails
\* with the AlreadyExists of the internal CreateDir, calls neither the Cmd's
\* apply nor any revert, and leaves the filesystem as it was.
C7_CloneOnNonDirectory ==
    \A m \in 1..Len(log) :
      ( /\ CloneApplyAt(m)
        /\ Exists(log[m].pre, log[m].shift.target_dir)
        /\ ~IsDir(log[m].pre, log[m].shift.target_dir) )
      => /\ log[m].res = Err("AlreadyExists",
                             <<"Path", log[m].shift.target_dir, "exists but is not a directory">>)
         /\ log[m].post = log[m].pre
         /\ Len(Nested(m)) = 1
         /\ Nested(m)[1].call = "apply"
         /\ Nested(m)[1].shift = CreateDirNew(log[m].shift.target_dir)
         /\ Nested(m)[1].res = log[m].res

\* a GitHubClone::apply has returned whose target was a file
C7_Witness ==
    \E m \in 1..Len(log) :
      /\ CloneApplyAt(m)
      /\ log[m].pre[log[m].shift.target_dir].kind = "file"

\* the internal CreateDir succeeded and the internal Cmd's apply failed
CloneCmdFailedAt(m) ==
    /\ CloneApplyAt(m)
    /\ Len(Nested(m)) >= 2
    /\ Nested(m)[1].call = "apply" /\ Nested(m)[1].res = Ok
    /\ Nested(m)[2].call = "apply" /\ Nested(m)[2].res # Ok

\* C8: GitHubClone::apply runs the whole apply algorithm: when the internal
\* CreateDir succeeds and the internal Cmd fails, CreateDir::revert is called
\* exactly once on the target before the composite returns, the composite
\* returns the Cmd's error, and the outer plan then reverts only the shifts
\* it applied before the composite, never the composite itself.
C8_NestedRollback ==
    \A m \in 1..Len(log) :
      CloneCmdFailedAt(m) =>
        /\ Len(Nested(m)) = 3
        /\ Nested(m)[2].shift.type = "Cmd"
        /\ Nested(m)[3].call = "revert"
        /\ Nested(m)[3].idx = 1
        /\ Nested(m)[3].shift = CreateDirNew(log[m].shift.target_dir)
        /\ log[m].res = Nested(m)[2].res
        /\ \A j \in (m + 1)..Len(log) :
              log[j].lvl = log[m].lvl => log[j].call = "revert" /\ log[j].idx < log[m].idx
        /\ Done => \A k \in 1..(log[m].idx - 1) :
                     Cardinality({j \in (m + 1)..Len(log) :
                                    log[j].lvl = log[m].lvl /\ log[j].idx = k}) = 1

\* a composite in third position failed on its Cmd and the outer plan has
\* rolled back the two shifts before it
C8_Witness ==
    /\ Done
    /\ \E m \in 1..Len(log) :
         /\ CloneCmdFailedAt(m)
         /\ log[m].idx = 3
         /\ Nested(m)[2].res.kind = "CommandFailed"
         /\ Len(log) = m + 2

FileExistsError(path) == Err("AlreadyExists", <<"File", path, "already exists">>)

\* C10: CreateFile::apply at a path that exists (a file with the same or
\* other content, or a directory) fails with AlreadyExists and changes
\* nothing; the same CreateFile applied twice fails the second time.
C10_CreateFileNeverOverwrites ==
    /\ \A m \in 1..Len(log) :
         ( /\ log[m].shift.type = "CreateFile" /\ log[m].call = "apply"
           /\ Exists(log[m].pre, log[m].shift.path) )
         => /\ log[m].res = FileExistsError(log[m].shift.path)
            /\ log[m].post = log[m].pre
    /\ \A m \in 1..(Len(log) - 1) :
         ( /\ log[m].shift.type = "CreateFile" /\ log[m].call = "apply"
           /\ log[m + 1].shift = log[m].shift /\ log[m + 1].call = "apply" )
         => /\ log[m + 1].res = FileExistsError(log[m].shift.path)
            /\ log[m + 1].post = log[m].post
    /\ ( /\ Len(plan) = 1 /\ plan[1].type = "CreateFile"
         /\ Len(hist) >= 2 /\ hist[1].op = "apply" /\ hist[2].op = "apply"
         /\ hist[2].res # Pending )
       => /\ hist[2].res # Ok
          /\ hist[2].post = hist[1].post
          /\ hist[1].res = Ok => hist[2].res = FileExistsError(plan[1].path)

\* the same CreateFile was applied twice in a row: created, then refused
\* although the content on disk is the content it would write
C10_Witness ==
    \E m \in 1..(Len(log) - 1) :
      /\ log[m].shift.type = "CreateFile" /\ log[m].call = "apply" /\ log[m].res = Ok
      /\ log[m + 1].shift = log[m].shift /\ log[m + 1].call = "apply"
      /\ log[m + 1].pre[log[m].shift.path] = FileEntry(log[m].shift.content)
      /\ log[m + 1].res.kind = "AlreadyExists"

\* CreateFile::apply was refused at a path holding other content
C10_WitnessOtherContent ==
    \E m \in 1..Len(log) :
      /\ log[m].shift.type = "CreateFile" /\ log[m].call = "apply"
      /\ log[m].pre[log[m].shift.path].kind = "file"
      /\ log[m].pre[log[m].shift.path].content # log[m].shift.content
      /\ log[m].res.kind = "AlreadyExists"

\* CreateFile::apply was refused at a path holding a directory
C10_WitnessDirectory ==
    \E m \in 1..Len(log) :
      /\ log[m].shift.type = "CreateFile" /\ log[m].call = "apply"
      /\ log[m].pre[log[m].shift.path].kind = "dir"
      /\ log[m].res.kind = "AlreadyExists"

CmdRevertError == Err("Custom", <<"Cannot automatically revert a command execution">>)

\* C11: Cmd::revert always fails with Custom and changes nothing, whether or
\* not the command was ever applied; a Cmd in the applied-set makes the
\* rollback report a failed revert and go on to the shifts before it.
C11_CmdRevertAlwaysFails ==
    /\ \A m \in 1..Len(log) :
         (log[m].shift.type = "Cmd" /\ log[m].call = "revert")
         => log[m].res = CmdRevertError /\ log[m].post = log[m].pre
    /\ (Done /\ CallOp = "apply") =>
         \A m \in 1..Len(Lvl(1)) :
           ( /\ Lvl(1)[m].shift.type = "Cmd" /\ Lvl(1)[m].call = "revert"
             /\ Lvl(1)[m].idx > 1 )
           => /\ m < Len(Lvl(1))
              /\ Lvl(1)[m + 1].call = "revert"
              /\ Lvl(1)[m + 1].idx = Lvl(1)[m].idx - 1

\* a rollback met a Cmd in second position and went on to the first shift
C11_Witness ==
    /\ Done /\ CallOp = "apply"
    /\ \E m \in 1..(Len(Lvl(1)) - 1) :
         /\ Lvl(1)[m].shift.type = "Cmd" /\ Lvl(1)[m].call = "revert"
         /\ Lvl(1)[m].idx = 2
         /\ Lvl(1)[m + 1].call = "revert" /\ Lvl(1)[m + 1].res = Ok
         /\ Lvl(1)[m + 1].post # Lvl(1)[m + 1].pre

\* a Cmd that was never applied was reverted
C11_WitnessNeverApplied ==
    /\ CallOp = "revert"
    /\ \E m \in 1..Len(log) : log[m].shift.type = "Cmd" /\ log[m].call = "revert"

\* C12: after a successful CreateDir::apply is_applied is true, after a
\* successful CreateDir::revert it is false; for [CreateDir d] with d absent:
\* apply succeeds, is_applied is true, revert removes d, is_applied is false.
C12_IsAppliedFollowsDir ==
    /\ \A m \in 1..Len(log) :
         (log[m].shift.type = "CreateDir" /\ log[m].res = Ok)
         => IsApplied(log[m].shift, log[m].post)
              = (IF log[m].call = "apply" THEN "true" ELSE "false")
    /\ ( /\ plan = <<CreateDirNew("d")>> /\ hist # <<>>
         /\ hist[1].op = "apply" /\ hist[1].res # Pending
         /\ ~Exists(hist[1].pre, "d") )
       => /\ hist[1].res = Ok
          /\ IsApplied(plan[1], hist[1].post) = "true"
          /\ (Len(hist) >= 2 /\ hist[2].op = "revert" /\ hist[2].res # Pending)
             => /\ hist[2].res = Ok
                /\ ~Exists(hist[2].post, "d")
                /\ IsApplied(plan[1], hist[2].post) = "false"

\* [CreateDir d] was applied where d was absent and then reverted
C12_Witness ==
    /\ Done /\ plan = <<CreateDirNew("d")>>
    /\ Len(hist) = 2 /\ hist[1].op = "apply" /\ hist[2].op = "revert"
    /\ ~Exists(hist[1].pre, "d")
    /\ IsApplied(plan[1], hist[1].post) = "true"
    /\ IsApplied(plan[1], hist[2].post) = "false"

\* ShiftPlan::apply has returned Ok: every shift was applied, none reverted
ApplySucceeded ==
    /\ Done /\ CallOp = "apply"
    /\ Last(hist).res = Ok
    /\ Len(Lvl(1)) = Len(plan)
    /\ \A m \in 1..Len(log) : log[m].call = "apply" /\ log[m].res = Ok

\* ShiftPlan::apply has returned the error of the first failing apply, after
\* reverting the whole applied-set
ApplyFailedRolledBack ==
    /\ Done /\ CallOp = "apply"
    /\ Last(hist).res # Ok
    /\ \E k \in 1..Len(plan) :
         /\ Len(Lvl(1)) = 2 * k - 1
         /\ \A m \in 1..(k - 1) : Lvl(1)[m].call = "apply" /\ Lvl(1)[m].res = Ok
         /\ Lvl(1)[k].call = "apply" /\ Lvl(1)[k].res = Last(hist).res
         /\ \A m \in (k + 1)..(2 * k - 1) :
               Lvl(1)[m].call = "revert" /\ Lvl(1)[m].idx = 2 * k - m

\* C13: every ShiftPlan::apply returns, and in one of two ways only: Ok after
\* every apply succeeded and no revert was made, or the failure after the
\* first failing apply and the complete rollback of the applied-set.
C13_ApplyRunsToCompletion ==
    /\ [](Done /\ CallOp = "apply" => ApplySucceeded \/ ApplyFailedRolledBack)
    /\ (CallOp = "apply") ~> (ApplySucceeded \/ ApplyFailedRolledBack)

\* apply has returned a failure after rolling back two shifts, the first
\* revert of the rollback having failed
C13_Witness ==
    /\ ApplyFailedRolledBack
    /\ Len(Lvl(1)) = 5
    /\ Lvl(1)[4].res # Ok

\* where in the log the current run of the plan at depth n begins
RunStart(n) ==
    IF n = 1 THEN 0
    ELSE CHOOSE j \in 0..Len(log) :
           /\ \A m \in (j + 1)..Len(log) : log[m].lvl >= n
           /\ (j = 0 \/ log[j].lvl < n)

\* the applies the plan at depth n has made in its current run
RunApplies(n) ==
    LET Mine(ev) == ev.lvl = n /\ ev.call = "apply"
    IN  SelectSeq(SubSeq(log, RunStart(n) + 1, Len(log)), Mine)

\* C14: ShiftPlan::apply applies the shifts in sequence order, one at a time:
\* the m-th apply it makes is on shift m and follows successful applies of
\* shifts 1..m-1, so no shift is applied twice and none after a failure.
C14_AppliesInOrder ==
    CallOp = "apply" =>
      /\ \A m \in 1..Len(Lvl(1)) :
            Lvl(1)[m].call = "apply" =>
              /\ Lvl(1)[m].idx = m
              /\ Lvl(1)[m].shift = plan[m]
              /\ \A j \in 1..(m - 1) : Lvl(1)[j].call = "apply" /\ Lvl(1)[j].res = Ok
      /\ \A n \in 1..Len(stack) :
            stack[n].op = "apply" =>
              /\ \A k \in 1..Len(RunApplies(n)) :
                    /\ RunApplies(n)[k].idx = k
                    /\ k < Len(RunApplies(n)) => RunApplies(n)[k].res = Ok
              /\ stack[n].pc = "loop" => stack[n].i = Len(RunApplies(n)) + 1
              /\ stack[n].pc = "rollback" =>
                    /\ Last(RunApplies(n)).res # Ok
                    /\ stack[n].i = Len(RunApplies(n))

\* the second of three shifts failed and the third was never applied
C14_Witness ==
    /\ Done /\ CallOp = "apply" /\ Len(plan) = 3
    /\ Lvl(1)[1].call = "apply" /\ Lvl(1)[1].res = Ok
    /\ Lvl(1)[2].call = "apply" /\ Lvl(1)[2].res # Ok
    /\ \A m \in 1..Len(Lvl(1)) : Lvl(1)[m].idx # 3

\* the positions 1..n, in order
Prefix(n) == [k \in 1..n |-> k]

\* the positions whose apply, called by the plan at depth n, has succeeded
\* during the plan's current run
Succeeded(n) ==
    {RunApplies(n)[k].idx : k \in {q \in 1..Len(RunApplies(n)) : RunApplies(n)[q].res = Ok}}

\* C15: at every point of a ShiftPlan::apply the applied-set is a prefix of
\* the plan's sequence, holding exactly the shifts applied successfully so
\* far; it is empty on entry, and the rollback walks this set only, in
\* reverse order.
C15_AppliedSetIsPrefix ==
    \A n \in 1..Len(stack) :
      stack[n].op = "apply" =>
        /\ Len(stack[n].applied) <= Len(stack[n].shifts)
        /\ stack[n].applied = Prefix(Len(stack[n].applied))
        /\ {stack[n].applied[k] : k \in 1..Len(stack[n].applied)} = Succeeded(n)
        /\ stack[n].pc = "loop" => stack[n].i = Len(stack[n].applied) + 1
        /\ stack[n].pc = "rollback" =>
              /\ Len(stack[n].rb) <= Len(stack[n].applied)
              /\ stack[n].rb = Reverse(Prefix(Len(stack[n].rb)))

\* a rollback over an applied-set of two shifts is half way
C15_Witness ==
    /\ stack # <<>>
    /\ stack[1].op = "apply" /\ stack[1].pc = "rollback"
    /\ stack[1].applied = <<1, 2>>
    /\ stack[1].rb = <<1>>

C17_CmdSucceedsIffAccepted ==
    \A m \in 1..Len(log) :
      (log[m].shift.type = "Cmd" /\ log[m].call = "apply") =>
        (log[m].res = Ok <=>
           /\ log[m].proc.launched
           /\ log[m].proc.hasCode
           /\ log[m].proc.code \in log[m].shift.success_exit_codes)

HasCmd(shifts) == \E k \in 1..Len(shifts) : shifts[k].type \in {"Cmd", "GitHubClone"}

\* C19: GitHubClone::revert never succeeds: its internal plan reverts the
\* Cmd first, which fails, then still reverts the CreateDir (removing the
\* target when it is a directory), and returns the aggregate Custom failure;
\* ShiftPlan::revert on a plan holding a Cmd never succeeds either.
C19_CloneRevertAlwaysFails ==
    /\ \A m \in 1..Len(log) :
         (log[m].shift.type = "GitHubClone" /\ log[m].call = "revert") =>
           /\ log[m].res.kind = "Custom"
           /\ log[m].res.msg = <<"Failed to revert some shifts">>
           /\ log[m].res.parts # <<>>
           /\ log[m].res.parts[1].err = CmdRevertError
           /\ Len(Nested(m)) = 2
           /\ Nested(m)[1].call = "revert" /\ Nested(m)[1].shift.type = "Cmd"
           /\ Nested(m)[1].res = CmdRevertError
           /\ Nested(m)[2].call = "revert"
           /\ Nested(m)[2].shift = CreateDirNew(log[m].shift.target_dir)
           /\ IsDir(log[m].pre, log[m].shift.target_dir)
              => ~Exists(log[m].post, log[m].shift.target_dir)
    /\ (Done /\ CallOp = "revert" /\ HasCmd(plan)) =>
         /\ Last(hist).res.kind = "Custom"
         /\ Last(hist).res.msg = <<"Failed to revert some shifts">>

\* a GitHubClone was reverted where its target was a directory
C19_Witness ==
    \E m \in 1..Len(log) :
      /\ log[m].shift.type = "GitHubClone" /\ log[m].call = "revert"
      /\ IsDir(log[m].pre, log[m].shift.target_dir)
      /\ log[m].res.kind = "Custom"

====
